---- MODULE Spec2Model ----
(***************************************************************************)
(* A model of the delivery robot of src/robot.js: the village graph built  *)
(* from the road list, the VillageState value and its move, the           *)
(* breadth-first findRoute, the four robots, and the countSteps /          *)
(* compareRobots drivers.                                                  *)
(*                                                                         *)
(* JavaScript values: an array is a sequence (index 1 is JS index 0), an   *)
(* object with fixed fields is a record.  A value that may be undefined    *)
(* or a thrown TypeError carries a tag.  An object that aliasing could     *)
(* expose to mutation (the VillageState handed to countSteps, the memory   *)
(* array handed to it, the global mailRoute) is a variable of its own, and *)
(* every function that is handed such an object returns, next to its       *)
(* result, the value the object has after the call.                        *)
(***************************************************************************)
EXTENDS Integers, Sequences, FiniteSets, TLC

\* ------------------------------------------------------------------ bounds

\* Math.random() is modelled as a value r / RandomLevels, r in 0 .. RandomLevels-1
RandomLevels == 4
\* the largest parclCount handed to VillageState.random
MaxParcels == 2
\* the longest edge list handed to buildGraph next to the village's own
MaxEdges == 3
\* cap on the turn counter of countSteps
MaxSteps == 30
\* the value at which the turn counter of a random walk stands still
MaxWalk == 3

\* ------------------------------------------------------------------ PART 1

\* a road list whose second road is mistyped, which leaves Cabin on its own
roadsApart ==
  << <<"Alice's House", "Bob's House">>,
     <<"Cabin", "Cabin">>,
     <<"Alice's House", "Post Office">>,
     <<"Bob's House", "Town Hall">>,
     <<"Daria's House", "Ernie's House">>,
     <<"Daria's House", "Town Hall">>,
     <<"Ernie's House", "Grete's House">>,
     <<"Grete's House", "Farm">>,
     <<"Grete's House", "Shop">>,
     <<"Marketplace", "Farm">>,
     <<"Marketplace", "Post Office">>,
     <<"Marketplace", "Shop">>,
     <<"Marketplace", "Town Hall">>,
     <<"Shop", "Town Hall">> >>

roads ==
  << <<"Alice's House", "Bob's House">>,
     <<"Alice's House", "Cabin">>,
     <<"Alice's House", "Post Office">>,
     <<"Bob's House", "Town Hall">>,
     <<"Daria's House", "Ernie's House">>,
     <<"Daria's House", "Town Hall">>,
     <<"Ernie's House", "Grete's House">>,
     <<"Grete's House", "Farm">>,
     <<"Grete's House", "Shop">>,
     <<"Marketplace", "Farm">>,
     <<"Marketplace", "Post Office">>,
     <<"Marketplace", "Shop">>,
     <<"Marketplace", "Town Hall">>,
     <<"Shop", "Town Hall">> >>

\* F(v) with v computed once: an operator's argument is computed again at each
\* of its uses, a bound variable is a value
Once(v, F(_)) == CHOOSE y \in {F(x) : x \in {v}} : TRUE

\* ------------------------------------------------------------------ PART 2

\* Object.create(null): no keys.  keys is the insertion order (Object.keys),
\* adj the array stored under each key.
emptyGraph == [keys |-> <<>>, adj |-> <<>>]

addEdge(graph, from, to) ==
  IF from \in DOMAIN graph.adj
    THEN [graph EXCEPT !.adj[from] = Append(@, to)]
    ELSE [keys |-> Append(graph.keys, from),
          adj  |-> graph.adj @@ (from :> <<to>>)]

\* a loop that forgets addEdge(to, from)
RECURSIVE buildGraphOneWay(_, _, _)
buildGraphOneWay(graph, list, k) ==
  IF k > Len(list) THEN graph
  ELSE Once(addEdge(graph, list[k][1], list[k][2]),
            LAMBDA g1 : buildGraphOneWay(g1, list, k + 1))

\* for (let [from, to] of edges.map(r => r.split("-"))), from edge k on; an
\* edge descriptor "from-to" is kept as the pair its split yields
RECURSIVE buildGraphFrom(_, _, _)
buildGraphFrom(graph, list, k) ==
  IF k > Len(list) THEN graph
  ELSE Once(addEdge(graph, list[k][1], list[k][2]),
            LAMBDA g1 : Once(addEdge(g1, list[k][2], list[k][1]),
                             LAMBDA g2 : buildGraphFrom(g2, list, k + 1)))

buildGraph(list) == buildGraphFrom(emptyGraph, list, 1)

roadGraph == buildGraph(roads)

\* Array.prototype.includes
includes(array, x) == \E k \in 1..Len(array) : array[k] = x

\* a value that may be an array, undefined, or a thrown TypeError
Array(items) == [tag |-> "array", items |-> items]
Undefined == [tag |-> "undefined", items |-> <<>>]
TypeError == [tag |-> "TypeError", items |-> <<>>]

\* Array.prototype.slice(1)
slice1(array) == IF Len(array) = 0 THEN <<>> ELSE Tail(array)

\* ------------------------------------------------------------------ PART 3

VillageState(place, parcels) == [place |-> place, parcels |-> parcels]

\* a map that takes along the parcels addressed to the robot's place
moveMapByAddress(this, destinations) ==
  [k \in 1..Len(this.parcels) |->
     IF this.parcels[k].address # this.place
       THEN this.parcels[k]
       ELSE [place |-> destinations, address |-> this.parcels[k].address]]

\* a map that leaves every parcel where it lies
moveMapLeave(this, destinations) == this.parcels

\* this.parcels.map(p => p.place != this.place ? p : {place: destinations, ...})
moveMap(this, destinations) ==
  [k \in 1..Len(this.parcels) |->
     IF this.parcels[k].place # this.place
       THEN this.parcels[k]
       ELSE [place |-> destinations, address |-> this.parcels[k].address]]

\* a move that forgets to drop the delivered parcels
moveFilterKeep(parcels) == parcels

\* .filter(p => p.place != p.address)
moveFilter(parcels) == SelectSeq(parcels, LAMBDA p : p.place # p.address)

\* a move that skips the road check
moveAnywhere(this, destinations) ==
  [tag |-> "ok",
   value |-> VillageState(destinations, moveFilter(moveMap(this, destinations))),
   isThis |-> FALSE, this |-> this]

\* a move that updates the receiver in place and returns it
moveInPlace(this, destinations) ==
  IF this.place \notin DOMAIN roadGraph.adj
    THEN [tag |-> "TypeError", value |-> this, isThis |-> TRUE, this |-> this]
  ELSE IF ~includes(roadGraph.adj[this.place], destinations)
    THEN [tag |-> "ok", value |-> this, isThis |-> TRUE, this |-> this]
  ELSE LET next == VillageState(destinations, moveFilter(moveMap(this, destinations)))
       IN [tag |-> "ok", value |-> next, isThis |-> TRUE, this |-> next]

\* value: the returned VillageState; isThis: the returned object is this;
\* this: the receiver after the call.  roadGraph[this.place] of a place that
\* is no key is undefined, and .includes on it throws.
move(this, destinations) ==
  IF this.place \notin DOMAIN roadGraph.adj
    THEN [tag |-> "TypeError", value |-> this, isThis |-> TRUE, this |-> this]
  ELSE IF ~includes(roadGraph.adj[this.place], destinations)
    THEN [tag |-> "ok", value |-> this, isThis |-> TRUE, this |-> this]
  ELSE [tag |-> "ok",
        value |-> VillageState(destinations,
                               moveFilter(moveMap(this, destinations))),
        isThis |-> FALSE, this |-> this]

\* ------------------------------------------------------------------ PART 5

\* Math.floor(Math.random() * array.length) with Math.random() = r / RandomLevels;
\* array[choice] of an empty array is undefined
randomPick(array, r) ==
  IF Len(array) = 0 THEN "undefined"
  ELSE array[((r * Len(array)) \div RandomLevels) + 1]

\* Every robot is handed the state, the memory, the global mailRoute and the
\* random draw it may consume, and returns {direction, memory} together with
\* the values the memory array it was handed and mailRoute have after the call.
Decision(direction, memory, memoryIn, mail) ==
  [tag |-> "ok", direction |-> direction, memory |-> memory,
   memoryIn |-> memoryIn, mailRoute |-> mail]

Thrown(memoryIn, mail) ==
  [tag |-> "TypeError", direction |-> "undefined", memory |-> Undefined,
   memoryIn |-> memoryIn, mailRoute |-> mail]

\* a robot that always takes the first road
randomRobotFirst(state, memory, mail, r) ==
  IF state.place \notin DOMAIN roadGraph.adj THEN Thrown(memory, mail)
  ELSE Decision(randomPick(roadGraph.adj[state.place], 0), Undefined, memory, mail)

randomRobot(state, memory, mail, r) ==
  IF state.place \notin DOMAIN roadGraph.adj THEN Thrown(memory, mail)
  ELSE Decision(randomPick(roadGraph.adj[state.place], r), Undefined, memory, mail)

\* ------------------------------------------------------------------ PART 7

\* a routeRobot that does not start the route over
routeRobotNoReset(state, memory, mail, r) ==
  IF memory.tag # "array" THEN Thrown(memory, mail)
  ELSE Decision(IF Len(memory.items) = 0 THEN "undefined" ELSE memory.items[1],
                Array(slice1(memory.items)), memory, mail)

\* a routeRobot that takes the head off the array with shift(), so that
\* starting over consumes mailRoute itself
routeRobotShift(state, memory, mail, r) ==
  IF memory.tag # "array" THEN Thrown(memory, mail)
  ELSE IF Len(memory.items) = 0
    THEN Decision(IF Len(mail) = 0 THEN "undefined" ELSE mail[1],
                  Array(slice1(mail)), memory, slice1(mail))
    ELSE Decision(memory.items[1], Array(slice1(memory.items)),
                  Array(slice1(memory.items)), mail)

routeRobot(state, memory, mail, r) ==
  IF memory.tag # "array" THEN Thrown(memory, mail)
  ELSE LET m == IF Len(memory.items) = 0 THEN mail ELSE memory.items
       IN Decision(IF Len(m) = 0 THEN "undefined" ELSE m[1],
                   Array(slice1(m)), memory, mail)

\* ------------------------------------------------------------------ PART 8

\* The two nested loops of findRoute: i indexes the work list, j the
\* neighbours of work[i].at.  Falling off the outer loop returns undefined.
RECURSIVE findRouteLoop(_, _, _, _, _)
findRouteLoop(graph, to, work, i, j) ==
  IF i > Len(work) THEN Undefined
  ELSE LET at == work[i].at
           route == work[i].route
       IN IF at \notin DOMAIN graph.adj THEN TypeError
          ELSE IF j > Len(graph.adj[at])
            THEN findRouteLoop(graph, to, work, i + 1, 1)
          ELSE LET place == graph.adj[at][j]
               IN IF place = to THEN Array(Append(route, place))
                  ELSE IF ~\E k \in 1..Len(work) : work[k].at = place
                    THEN Once(Append(work, [at |-> place, route |-> Append(route, place)]),
                              LAMBDA w : findRouteLoop(graph, to, w, i, j + 1))
                  ELSE findRouteLoop(graph, to, work, i, j + 1)

\* a search whose routes start with the origin
findRouteWithOrigin(graph, from, to) ==
  Once(graph, LAMBDA g : findRouteLoop(g, to, <<[at |-> from, route |-> <<from>>]>>, 1, 1))

findRoute(graph, from, to) ==
  Once(graph, LAMBDA g : findRouteLoop(g, to, <<[at |-> from, route |-> <<>>]>>, 1, 1))

\* ------------------------------------------------------------------ PART 9

\* direction: route[1], an index off by one
followSecond(route, memory, mail) ==
  IF route.tag # "array" THEN Thrown(memory, mail)
  ELSE Decision(IF Len(route.items) < 2 THEN "undefined" ELSE route.items[2],
                Array(slice1(route.items)), memory, mail)

\* direction: route[0], memory: route.slice(1)
follow(route, memory, mail) ==
  IF route.tag # "array" THEN Thrown(memory, mail)
  ELSE Decision(IF Len(route.items) = 0 THEN "undefined" ELSE route.items[1],
                Array(slice1(route.items)), memory, mail)

\* a robot that heads for the address of the first parcel without picking it up
goalOrientedRobotAddress(state, memory, mail, r) ==
  IF memory.tag # "array" THEN Thrown(memory, mail)
  ELSE IF Len(memory.items) # 0 THEN follow(memory, memory, mail)
  ELSE IF Len(state.parcels) = 0 THEN Thrown(memory, mail)
  ELSE follow(findRoute(roadGraph, state.place, state.parcels[1].address), memory, mail)

goalOrientedRobot(state, memory, mail, r) ==
  IF memory.tag # "array" THEN Thrown(memory, mail)
  ELSE IF Len(memory.items) # 0 THEN follow(memory, memory, mail)
  ELSE IF Len(state.parcels) = 0 THEN Thrown(memory, mail)
  ELSE LET parcel == state.parcels[1]
       IN IF parcel.place # state.place
            THEN follow(findRoute(roadGraph, state.place, parcel.place), memory, mail)
            ELSE follow(findRoute(roadGraph, state.place, parcel.address), memory, mail)

\* ------------------------------------------------------------------ PART 11

\* a map that routes to where the parcel lies, carried or not
lazyRoutesToPlace(state) ==
  [k \in 1..Len(state.parcels) |->
     [route |-> findRoute(roadGraph, state.place, state.parcels[k].place),
      pickUp |-> state.parcels[k].place # state.place]]

\* parcels.map(parcel => {route, pickUp})
lazyRoutes(state) ==
  [k \in 1..Len(state.parcels) |->
     IF state.parcels[k].place # state.place
       THEN [route |-> findRoute(roadGraph, state.place, state.parcels[k].place),
             pickUp |-> TRUE]
       ELSE [route |-> findRoute(roadGraph, state.place, state.parcels[k].address),
             pickUp |-> FALSE]]

\* a score that adds the length
scoreLonger(c) == (IF c.pickUp THEN 1 ELSE 0) + 2 * Len(c.route.items)

\* (pickUp ? 0.5 : 0) - route.length, doubled to stay in the integers
score(c) == (IF c.pickUp THEN 1 ELSE 0) - 2 * Len(c.route.items)

\* a reduce that keeps the first of two candidates of equal score
RECURSIVE lazyReduceFirst(_, _, _)
lazyReduceFirst(routes, a, k) ==
  IF k > Len(routes) THEN a
  ELSE lazyReduceFirst(routes, IF score(a) >= score(routes[k]) THEN a ELSE routes[k], k + 1)

\* routes.reduce((a, b) => score(a) > score(b) ? a : b), from index k on
RECURSIVE lazyReduce(_, _, _)
lazyReduce(routes, a, k) ==
  IF k > Len(routes) THEN a
  ELSE lazyReduce(routes, IF score(a) > score(routes[k]) THEN a ELSE routes[k], k + 1)

lazyRobot(state, memory, mail, r) ==
  IF memory.tag # "array" THEN Thrown(memory, mail)
  ELSE IF Len(memory.items) # 0 THEN follow(memory, memory, mail)
  ELSE LET routes == lazyRoutes(state)
       IN IF Len(routes) = 0 THEN Thrown(memory, mail)
          ELSE IF Len(routes) > 1 /\ \E k \in 1..Len(routes) : routes[k].route.tag # "array"
            THEN Thrown(memory, mail)
          ELSE follow(lazyReduce(routes, routes[1], 2).route, memory, mail)

\* ------------------------------------------------------------------ state

VARIABLES
  pc,          \* where the program is: "random", "countSteps", "runRobot", "move",
               \* "returned", "done", "threw", "findRoute"
  caller,      \* who asked for the state: "countSteps", "runRobot", "compareRobots", "move",
               \* or a bare call VillageState.random() / VillageState.random(n)
  run,         \* compareRobots: 1 in the first countSteps call, 2 in the second; else 0
  robot,       \* the robot handed to countSteps / runRobot
  parclCount,  \* VillageState.random: its argument
  parcels,     \* VillageState.random: its local array
  state,       \* countSteps / runRobot: the local variable state (a VillageState value)
  arg,         \* the VillageState object created by VillageState.random, as it is now
  isArg,       \* state refers to that very object
  memory,      \* countSteps / runRobot: the local variable memory
  memArg,      \* the memory array handed to countSteps / runRobot, as it is now
  memIsArg,    \* memory refers to that very array
  mailRoute,   \* the global array mailRoute
  steps,       \* countSteps: steps; runRobot: turn
  action,      \* the last value returned by the robot: {direction, memory}
  returned,    \* the value the last countSteps call returned, -1 before
  log,         \* runRobot: the number of lines written by console.log
  given,       \* history: the state and the memory as VillageState.random and the
               \* caller made them, before any call saw them
  asked,       \* history: the state and the memory the robot was last called with
  calls,       \* history: the number of robot calls of the running call
  edges,       \* the edge list handed to buildGraph
  found        \* the last findRoute call on buildGraph(edges): from, to and its value

vars == <<pc, caller, run, robot, parclCount, parcels, state, arg, isArg, memory,
          memArg, memIsArg, mailRoute, steps, action, returned, log, given, asked,
          calls, edges, found>>

mailRouteLiteral ==
  <<"Alice's House", "Cabin", "Alice's House", "Bob's House", "Town Hall",
    "Daria's House", "Ernie's House", "Grete's House", "Shop", "Grete's House",
    "Farm", "Marketplace", "Post Office">>

NoAction == [direction |-> "undefined", memory |-> Undefined]
NoState == VillageState("undefined", <<>>)
NoFound == [from |-> "undefined", to |-> "undefined", route |-> Undefined]
NoGiven == [state |-> NoState, memory |-> Undefined]

\* VillageState.random = function (parclCount = 5)
defaultParclCount == 5

\* the draws of Math.random()
Draws == 0 .. (RandomLevels - 1)

\* robot(state, memory)
callRobot(name, st, mem, mail, r) ==
  CASE name = "randomRobot" -> randomRobot(st, mem, mail, r)
    [] name = "routeRobot" -> routeRobot(st, mem, mail, r)
    [] name = "goalOrientedRobot" -> goalOrientedRobot(st, mem, mail, r)
    [] name = "lazyRobot" -> lazyRobot(st, mem, mail, r)

\* only randomRobot consumes a draw
drawsOf(name) == IF name = "randomRobot" THEN Draws ELSE {0}

\* the program as VillageState.random(n) is entered on behalf of who, with
\* the robot r and the memory [] waiting to be run
Start(who, r, n) ==
  /\ pc = "random"
  /\ caller = who
  /\ run = IF who = "compareRobots" THEN 1 ELSE 0
  /\ robot = r
  /\ parclCount = n
  /\ parcels = <<>>
  /\ state = NoState
  /\ arg = NoState
  /\ isArg = FALSE
  /\ memory = Array(<<>>)
  /\ memArg = Array(<<>>)
  /\ memIsArg = TRUE
  /\ mailRoute = mailRouteLiteral
  /\ steps = 0
  /\ action = NoAction
  /\ returned = -1
  /\ log = 0
  /\ given = NoGiven
  /\ asked = NoGiven
  /\ calls = 0
  /\ edges = <<>>
  /\ found = NoFound

\* ------------------------------------------------------------------ PART 6

\* a loop body without the do-while: the place is a draw like the address
RandomPushAnyPlace ==
  /\ pc = "random"
  /\ Len(parcels) < parclCount
  /\ \E ra \in Draws, rp \in Draws :
       parcels' = Append(parcels, [place |-> randomPick(roadGraph.keys, rp),
                                   address |-> randomPick(roadGraph.keys, ra)])
  /\ UNCHANGED <<pc, caller, run, robot, parclCount, state, arg, isArg, memory,
                 memArg, memIsArg, mailRoute, steps, action, returned, log, given,
                 asked, calls, edges, found>>

\* one iteration of the for loop of VillageState.random: the address is one draw,
\* the place is the last draw of the do-while, the first that differs from it
RandomPush ==
  /\ pc = "random"
  /\ Len(parcels) < parclCount
  /\ \E ra \in Draws, rp \in Draws :
       LET address == randomPick(roadGraph.keys, ra)
           place == randomPick(roadGraph.keys, rp)
       IN /\ place # address
          /\ parcels' = Append(parcels, [place |-> place, address |-> address])
  /\ UNCHANGED <<pc, caller, run, robot, parclCount, state, arg, isArg, memory,
                 memArg, memIsArg, mailRoute, steps, action, returned, log, given,
                 asked, calls, edges, found>>

\* return new VillageState("Post Office", parcels), and the caller's call of
\* countSteps(state, robot, memory) / runRobot(state, robot, memory) on it;
\* the local parcels goes out of scope (the array lives on in the state)
RandomReturn ==
  /\ pc = "random"
  /\ Len(parcels) >= parclCount
  /\ pc' = IF caller = "compareRobots" THEN "countSteps"
           ELSE IF caller \in {"random()", "random(n)"} THEN "script"
           ELSE caller
  /\ state' = VillageState("Post Office", parcels)
  /\ arg' = VillageState("Post Office", parcels)
  /\ isArg' = TRUE
  /\ given' = [state |-> VillageState("Post Office", parcels), memory |-> memArg]
  /\ parcels' = <<>>
  /\ UNCHANGED <<caller, run, robot, parclCount, memory, memArg, memIsArg,
                 mailRoute, steps, action, returned, log, asked, calls, edges, found>>

\* ------------------------------------------------------------------ PART 4, 10

\* a loop body that forgets memory = action.memory
TurnedKeepMemory(a, m) ==
  IF a.tag # "ok" \/ m.tag # "ok"
    THEN /\ pc' = "threw"
         /\ UNCHANGED <<state, arg, isArg, memory, memArg, memIsArg, mailRoute,
                        steps, action>>
    ELSE /\ action' = [direction |-> a.direction, memory |-> a.memory]
         /\ state' = m.value
         /\ arg' = IF isArg THEN m.this ELSE arg
         /\ isArg' = (isArg /\ m.isThis)
         /\ memArg' = IF memIsArg THEN a.memoryIn ELSE memArg
         /\ mailRoute' = a.mailRoute
         /\ steps' = steps + 1
         /\ pc' = pc
         /\ UNCHANGED <<memory, memIsArg>>

\* the body of the loop of countSteps and of runRobot once the robot has
\* answered a and move has answered m, the counter going to n; a throw leaves
\* the loop
TurnedTo(a, m, n) ==
  IF a.tag # "ok" \/ m.tag # "ok"
    THEN /\ pc' = "threw"
         /\ UNCHANGED <<state, arg, isArg, memory, memArg, memIsArg, mailRoute,
                        steps, action>>
    ELSE /\ action' = [direction |-> a.direction, memory |-> a.memory]
         /\ state' = m.value
         /\ arg' = IF isArg THEN m.this ELSE arg
         /\ isArg' = (isArg /\ m.isThis)
         /\ memory' = a.memory
         /\ memArg' = IF memIsArg THEN a.memoryIn ELSE memArg
         /\ memIsArg' = FALSE
         /\ mailRoute' = a.mailRoute
         /\ steps' = n
         /\ pc' = pc

\* steps++
Turned(a, m) == TurnedTo(a, m, steps + 1)

\* the robot is asked: robot(state, memory)
Asked ==
  /\ asked' = [state |-> state, memory |-> memory]
  /\ calls' = calls + 1

\* countSteps: one pass of the loop that does not return
Turn ==
  /\ pc = "countSteps"
  /\ Len(state.parcels) # 0
  /\ steps < MaxSteps
  /\ Asked
  /\ \E r \in drawsOf(robot) :
       \E a \in {callRobot(robot, state, memory, mailRoute, r)} :
          \E m \in {move(state, a.direction)} : Turned(a, m)
  /\ UNCHANGED <<caller, run, robot, parclCount, parcels, returned, log, given,
                 edges, found>>

\* countSteps(state, randomRobot, memory): one pass of the loop with the robot at
\* place p and Math.random() drawing r.  The walk has no bound on its length,
\* so the counters stand still at MaxWalk, which reads "MaxWalk or more".
RandomTurn(p, r) ==
  /\ pc = "countSteps"
  /\ state.place = p
  /\ Len(state.parcels) # 0
  /\ asked' = [state |-> state, memory |-> memory]
  /\ calls' = IF calls < MaxWalk THEN calls + 1 ELSE calls
  /\ \E a \in {callRobot(robot, state, memory, mailRoute, r)} :
       \E m \in {move(state, a.direction)} :
          TurnedTo(a, m, IF steps < MaxWalk THEN steps + 1 ELSE steps)
  /\ UNCHANGED <<caller, run, robot, parclCount, parcels, returned, log, given,
                 edges, found>>

\* countSteps: if (state.parcels.length == 0) return steps
Return ==
  /\ pc = "countSteps"
  /\ Len(state.parcels) = 0
  /\ pc' = "returned"
  /\ returned' = steps
  /\ UNCHANGED <<caller, run, robot, parclCount, parcels, state, arg, isArg, memory,
                 memArg, memIsArg, mailRoute, steps, action, log, given, asked,
                 calls, edges, found>>

\* runRobot: one pass of the loop that does not break; it logs the move
RunRobotTurn ==
  /\ pc = "runRobot"
  /\ Len(state.parcels) # 0
  /\ steps < MaxSteps
  /\ Asked
  /\ \E r \in drawsOf(robot) :
       \E a \in {callRobot(robot, state, memory, mailRoute, r)} :
          \E m \in {move(state, a.direction)} : Turned(a, m)
  /\ log' = IF pc' = "threw" THEN log ELSE log + 1
  /\ UNCHANGED <<caller, run, robot, parclCount, parcels, returned, given,
                 edges, found>>

\* runRobot: if (state.parcels.length == 0) { console.log(...); break; }
RunRobotDone ==
  /\ pc = "runRobot"
  /\ Len(state.parcels) = 0
  /\ pc' = "done"
  /\ log' = log + 1
  /\ UNCHANGED <<caller, run, robot, parclCount, parcels, state, arg, isArg, memory,
                 memArg, memIsArg, mailRoute, steps, action, returned, given, asked,
                 calls, edges, found>>

\* compareRobots(lazyRobot, [], goalOrientedRobot, []) after its first
\* countSteps call has returned: countSteps(state, robot2, memory2), state
\* being the object VillageState.random returned and memory2 a second []
SecondCall ==
  /\ pc = "returned"
  /\ run = 1
  /\ pc' = "countSteps"
  /\ run' = 2
  /\ robot' = "goalOrientedRobot"
  /\ state' = arg
  /\ isArg' = TRUE
  /\ memory' = Array(<<>>)
  /\ memArg' = Array(<<>>)
  /\ memIsArg' = TRUE
  /\ steps' = 0
  /\ calls' = 0
  /\ UNCHANGED <<caller, parclCount, parcels, arg, mailRoute, action, returned, log,
                 given, asked, edges, found>>

\* compareRobots after its second countSteps call has returned: the next pass
\* of its loop enters VillageState.random again (the pass counter i and the
\* totals, which only feed console.log, are not kept)
NextTrial ==
  /\ pc = "returned"
  /\ run = 2
  /\ pc' = "random"
  /\ run' = 1
  /\ robot' = "lazyRobot"
  /\ parcels' = <<>>
  /\ state' = NoState
  /\ arg' = NoState
  /\ isArg' = FALSE
  /\ memory' = Array(<<>>)
  /\ memArg' = Array(<<>>)
  /\ memIsArg' = TRUE
  /\ steps' = 0
  /\ action' = NoAction
  /\ returned' = -1
  /\ given' = NoGiven
  /\ asked' = NoGiven
  /\ calls' = 0
  /\ UNCHANGED <<caller, parclCount, mailRoute, log, edges, found>>

\* the destinations move is tried with on st: every neighbour of its place,
\* the address of its first parcel (a jump straight to a delivery), and a
\* value that is no place
Destinations(st) ==
  (IF st.place \in DOMAIN roadGraph.adj
     THEN {roadGraph.adj[st.place][k] : k \in 1..Len(roadGraph.adj[st.place])}
     ELSE {})
    \cup {"undefined"}
    \cup {st.parcels[k].address : k \in 1..(IF Len(st.parcels) = 0 THEN 0 ELSE 1)}

\* state = state.move(destinations), called from outside with any destination;
\* the caller keeps the returned state only, so the object of VillageState.random
\* is unreachable, and dropped, once move has returned another
MoveCall ==
  /\ pc = "move"
  /\ \E d \in Destinations(state) : \E m \in {move(state, d)} :
          IF m.tag # "ok"
            THEN /\ pc' = "threw"
                 /\ UNCHANGED <<state, arg, isArg, action, given>>
            ELSE /\ pc' = pc
                 /\ action' = [direction |-> d, memory |-> Undefined]
                 /\ state' = m.value
                 /\ arg' = IF isArg /\ m.isThis THEN m.this ELSE NoState
                 /\ isArg' = (isArg /\ m.isThis)
                 /\ given' = IF isArg /\ m.isThis THEN given ELSE NoGiven
  /\ UNCHANGED <<caller, run, robot, parclCount, parcels, memory, memArg, memIsArg,
                 mailRoute, steps, returned, log, asked, calls, edges, found>>

\* ------------------------------------------------------------------ findRoute calls

SmallPlaces == {"A", "B", "C"}

\* one more edge descriptor "from-to" at the end of the edge list
AddRoad ==
  /\ pc = "findRoute"
  /\ Len(edges) < MaxEdges
  /\ \E from \in SmallPlaces, to \in SmallPlaces : edges' = Append(edges, <<from, to>>)
  /\ found' = NoFound
  /\ UNCHANGED <<pc, caller, run, robot, parclCount, parcels, state, arg, isArg,
                 memory, memArg, memIsArg, mailRoute, steps, action, returned, log,
                 given, asked, calls>>

\* findRoute(buildGraph(edges), from, to)
FindRouteCall ==
  /\ pc = "findRoute"
  /\ LET graph == buildGraph(edges)
         places == {graph.keys[k] : k \in 1..Len(graph.keys)}
     IN \E from \in places \cup SmallPlaces, to \in places \cup SmallPlaces :
          found' = [from |-> from, to |-> to, route |-> findRoute(graph, from, to)]
  /\ UNCHANGED <<pc, caller, run, robot, parclCount, parcels, state, arg, isArg,
                 memory, memArg, memIsArg, mailRoute, steps, action, returned, log,
                 given, asked, calls, edges>>

\* the program as findRoute is about to be called on a graph built from list
StartFindRoute(list) ==
  /\ pc = "findRoute"
  /\ caller = "findRoute"
  /\ run = 0
  /\ robot = "none"
  /\ parclCount = 0
  /\ parcels = <<>>
  /\ state = NoState
  /\ arg = NoState
  /\ isArg = FALSE
  /\ memory = Array(<<>>)
  /\ memArg = Array(<<>>)
  /\ memIsArg = TRUE
  /\ mailRoute = mailRouteLiteral
  /\ steps = 0
  /\ action = NoAction
  /\ returned = -1
  /\ log = 0
  /\ given = NoGiven
  /\ asked = NoGiven
  /\ calls = 0
  /\ edges = list
  /\ found = NoFound

\* ------------------------------------------------------------------ specifications

DetRobots == {"routeRobot", "goalOrientedRobot", "lazyRobot"}

\* countSteps(VillageState.random(n), robot, []) and runRobot(...) of a robot
\* that draws nothing
Init ==
  \E who \in {"countSteps", "runRobot"}, r \in DetRobots, n \in 0..MaxParcels :
     Start(who, r, n)

Next == RandomPush \/ RandomReturn \/ Turn \/ Return \/ RunRobotTurn \/ RunRobotDone

Spec == Init /\ [][Next]_vars

\* the same program kept running: a loop that can make a pass makes it
SpecRunning == Init /\ [][Next]_vars /\ WF_vars(Next)

\* compareRobots(lazyRobot, [], goalOrientedRobot, []), its VillageState.random
\* call bounded by MaxParcels
InitCompare == \E n \in 0..MaxParcels : Start("compareRobots", "lazyRobot", n)

NextCompare == RandomPush \/ RandomReturn \/ Turn \/ Return \/ SecondCall \/ NextTrial

SpecCompare == InitCompare /\ [][NextCompare]_vars

\* move called with any destination on a state of VillageState.random
InitMove == \E n \in 0..MaxParcels : Start("move", "none", n)

NextMove == RandomPush \/ RandomReturn \/ MoveCall

SpecMove == InitMove /\ [][NextMove]_vars

\* findRoute on the village graph and on the graphs of short edge lists
InitFindRoute == StartFindRoute(<<>>) \/ StartFindRoute(roads)

NextFindRoute == AddRoad \/ FindRouteCall

SpecFindRoute == InitFindRoute /\ [][NextFindRoute]_vars

\* countSteps(VillageState.random(n), routeRobot, []); the program is
\* sequential and runs on while it can
InitRouteRobot == \E n \in 0..MaxParcels : Start("countSteps", "routeRobot", n)

NextCount == RandomPush \/ RandomReturn \/ Turn \/ Return

SpecRouteRobot == InitRouteRobot /\ [][NextCount]_vars /\ WF_vars(NextCount)

\* countSteps(VillageState.random(n), randomRobot, []).  Math.random() draws
\* fairly: a place the robot is at again and again sees every draw again and
\* again; and the program runs on while it can.
InitRandomRobot == \E n \in 0..MaxParcels : Start("countSteps", "randomRobot", n)

NextRandomRobot ==
  \/ RandomPush
  \/ RandomReturn
  \/ \E p \in DOMAIN roadGraph.adj, r \in Draws : RandomTurn(p, r)
  \/ Return

\* the loop of countSteps is about to ask randomRobot at place p
WalkingAt(p) == pc = "countSteps" /\ state.place = p /\ Len(state.parcels) # 0

\* SF_vars(RandomTurn(p, r)) for every place p and draw r, the draws of a
\* place taken together: RandomTurn(p, r) is enabled exactly when WalkingAt(p)
FairDraws ==
  \A p \in DOMAIN roadGraph.adj :
     \/ <>[]~WalkingAt(p)
     \/ \A r \in Draws : []<><<RandomTurn(p, r)>>_vars

SpecRandomRobot ==
  InitRandomRobot /\ [][NextRandomRobot]_vars /\ WF_vars(NextRandomRobot) /\ FairDraws

\* the same walk with no assumption on the draws
SpecRandomWalk ==
  InitRandomRobot /\ [][NextRandomRobot]_vars /\ WF_vars(NextRandomRobot)

\* countSteps(VillageState.random(n), robot, []) for each of the four robots
InitRobots ==
  \E r \in DetRobots \cup {"randomRobot"}, n \in 0..MaxParcels : Start("countSteps", r, n)

NextRobots ==
  \/ RandomPush
  \/ RandomReturn
  \/ (robot # "randomRobot" /\ Turn)
  \/ (robot = "randomRobot" /\ \E p \in DOMAIN roadGraph.adj, r \in Draws : RandomTurn(p, r))
  \/ Return

SpecRobots == InitRobots /\ [][NextRobots]_vars

\* VillageState.random() and VillageState.random(n) called for their value
InitRandom ==
  \/ Start("random()", "none", defaultParclCount)
  \/ \E n \in 0..MaxParcels : Start("random(n)", "none", n)

NextRandom == RandomPush \/ RandomReturn

SpecRandom == InitRandom /\ [][NextRandom]_vars

\* the program as move is about to be called on new VillageState(place, list),
\* a state built with the constructor rather than by VillageState.random
StartMoveAt(place, list) ==
  /\ pc = "move"
  /\ caller = "move"
  /\ run = 0
  /\ robot = "none"
  /\ parclCount = Len(list)
  /\ parcels = <<>>
  /\ state = VillageState(place, list)
  /\ arg = VillageState(place, list)
  /\ isArg = TRUE
  /\ memory = Array(<<>>)
  /\ memArg = Array(<<>>)
  /\ memIsArg = TRUE
  /\ mailRoute = mailRouteLiteral
  /\ steps = 0
  /\ action = NoAction
  /\ returned = -1
  /\ log = 0
  /\ given = [state |-> VillageState(place, list), memory |-> Array(<<>>)]
  /\ asked = NoGiven
  /\ calls = 0
  /\ edges = <<>>
  /\ found = NoFound

\* the places parcels are drawn from
DrawnPlaces == {randomPick(roadGraph.keys, r) : r \in Draws}

\* move on a state at any place of the village or at a place that roadGraph
\* does not hold, and findRoute on roadGraph from such a place
InitUnknownPlace ==
  \/ StartFindRoute(roads)
  \/ \E place \in DOMAIN roadGraph.adj \cup {"Nowhere"} :
       \/ StartMoveAt(place, <<>>)
       \/ \E q \in DrawnPlaces \cup {"Nowhere"}, a \in DrawnPlaces :
            q # a /\ StartMoveAt(place, <<[place |-> q, address |-> a]>>)

NextUnknownPlace == MoveCall \/ FindRouteCall

SpecUnknownPlace == InitUnknownPlace /\ [][NextUnknownPlace]_vars

\* ------------------------------------------------------------------ move (C1 - C3)

adjacent(place, d) ==
  place \in DOMAIN roadGraph.adj /\ includes(roadGraph.adj[place], d)

\* C1: in every state reached from a state of VillageState.random by move calls,
\* with adjacent or non-adjacent destinations, no parcel of the state has its
\* place equal to its address.
C1_DeliveryInvariant ==
  pc \in {"move", "countSteps", "runRobot", "returned", "done"} =>
    \A k \in 1..Len(state.parcels) : state.parcels[k].place # state.parcels[k].address

\* a move has delivered a parcel and another parcel is still under way
C1_Witness ==
  /\ pc = "move"
  /\ Len(state.parcels) > 0
  /\ Len(state.parcels) < parclCount

\* what the move of the robot from place from to d makes of the parcel p
Relocated(p, from, d) ==
  [place |-> IF p.place = from THEN d ELSE p.place, address |-> p.address]

\* new is old moved to d: the parcels of new are, in their order, the relocated
\* parcels of old that are not at their address; none is added
MovedTo(old, d, new) ==
  /\ new.place = d
  /\ Len(new.parcels) <= Len(old.parcels)
  /\ \E f \in [1..Len(new.parcels) -> 1..Len(old.parcels)] :
       /\ \A i, j \in 1..Len(new.parcels) : i < j => f[i] < f[j]
       /\ \A j \in 1..Len(new.parcels) :
            new.parcels[j] = Relocated(old.parcels[f[j]], old.place, d)
       /\ \A k \in 1..Len(old.parcels) :
            (\A j \in 1..Len(new.parcels) : f[j] # k)
              <=> (Relocated(old.parcels[k], old.place, d).place = old.parcels[k].address)

\* C2: a move to a destination adjacent to the robot's place returns the state
\* at the destination whose parcels are the old ones in the same order, those at
\* the old place relocated to the destination, the others and every address
\* untouched, and exactly those now at their address removed.
C2_MoveRelocates ==
  [][(pc = "move" /\ pc' = "move" /\ adjacent(state.place, action'.direction))
       => MovedTo(state, action'.direction, state')]_vars

\* a move has just delivered one parcel and left another where it was
C2_Witness ==
  /\ pc = "move"
  /\ action.direction = state.place
  /\ Len(state.parcels) < parclCount
  /\ \E k \in 1..Len(state.parcels) : state.parcels[k].place # state.place

\* C3: a move to a destination that is not adjacent to the robot's place returns
\* the input state itself, with the same place and parcels, and leaves it unmodified.
C3_NoOpLaw ==
  [][(pc = "move" /\ ~adjacent(state.place, action'.direction))
       => /\ state' = state
          /\ pc' = "move"
          /\ isArg' = isArg
          /\ arg' = arg]_vars

\* move has just been called on the state of VillageState.random with the
\* address of its first parcel, which is not adjacent, and returned that state
C3_Witness ==
  /\ pc = "move"
  /\ isArg
  /\ state = arg
  /\ state = given.state
  /\ Len(state.parcels) > 0
  /\ action.direction = state.parcels[1].address
  /\ ~adjacent(state.place, action.direction)

\* ------------------------------------------------------------------ countSteps (C4)

\* C4: a simulation never changes the state or the memory it was given: while
\* countSteps runs and after it has returned, the state object and the memory
\* array handed to it are as they were handed over; hence the second
\* countSteps call of compareRobots starts from the state the first started from.
C4_InputUnchanged ==
  /\ pc \in {"countSteps", "returned"} =>
       /\ arg = given.state
       /\ memArg = given.memory
  /\ (pc = "countSteps" /\ calls = 0) =>
       /\ state = given.state
       /\ memory = given.memory

\* the second countSteps call of compareRobots is about to start, the first
\* having returned after some turns
C4_Witness ==
  /\ caller = "compareRobots"
  /\ pc = "countSteps"
  /\ run = 2
  /\ calls = 0
  /\ returned > 0

\* ------------------------------------------------------------------ findRoute (C5, C6)

\* the number of edges of a shortest path to the place to from the places of
\* frontier, n edges away from the origin; -1 if there is none
RECURSIVE distance(_, _, _, _, _)
distance(graph, seen, frontier, to, n) ==
  IF to \in frontier THEN n
  ELSE IF frontier = {} THEN -1
  ELSE LET next == {q \in DOMAIN graph.adj :
                      \E p \in frontier : includes(graph.adj[p], q)} \ seen
       IN distance(graph, seen \cup next, next, to, n + 1)

\* route leads from the place from to the place to along edges of graph
IsPath(graph, from, route, to) ==
  /\ Len(route) > 0
  /\ includes(graph.adj[from], route[1])
  /\ \A k \in 1..(Len(route) - 1) : includes(graph.adj[route[k]], route[k + 1])
  /\ route[Len(route)] = to

\* C5: for a graph of buildGraph and distinct places from, to with to reachable
\* from from, findRoute returns a valid path from from to to whose length is
\* the least number of edges between them.
C5_ShortestRoute ==
  LET graph == buildGraph(edges)
  IN (/\ found.from # found.to
      /\ found.from \in DOMAIN graph.adj
      /\ distance(graph, {found.from}, {found.from}, found.to, 0) > 0)
       => /\ found.route.tag = "array"
          /\ IsPath(graph, found.from, found.route.items, found.to)
          /\ Len(found.route.items)
               = distance(graph, {found.from}, {found.from}, found.to, 0)

\* findRoute has returned a route of four places in the village
C5_Witness ==
  /\ edges = roads
  /\ found.from # found.to
  /\ found.route.tag = "array"
  /\ Len(found.route.items) = 4

\* C6: for every place a of the graph, findRoute(graph, a, a) yields an empty route.
C6_EmptyRouteToSelf ==
  (found.from = found.to /\ found.from \in DOMAIN buildGraph(edges).adj)
    => found.route = Array(<<>>)

\* ------------------------------------------------------------------ the loop (C7)

\* C7: the loop of countSteps and of runRobot stops exactly when no parcel is
\* left: the robot is never asked on a state without parcels, the loop never
\* ends on a state with parcels, the count countSteps returns is the number of
\* decisions applied through move (0 if the state had no parcels), and each
\* decision is asked with the memory the one before returned.
C7_LoopInvariant ==
  /\ calls > 0 => Len(asked.state.parcels) > 0
  /\ pc \in {"returned", "done"} => Len(state.parcels) = 0
  /\ pc \in {"countSteps", "runRobot", "returned", "done"} => steps = calls
  /\ pc = "returned" => returned = calls
  /\ (pc \in {"countSteps", "runRobot"} /\ calls > 0) => memory = action.memory
  /\ (pc \in {"countSteps", "runRobot"} /\ calls = 0) => memory = given.memory

C7_LoopStep ==
  (calls' = calls + 1 /\ pc' # "threw") =>
     /\ Len(state.parcels) > 0
     /\ asked'.memory = IF calls = 0 THEN given.memory ELSE action.memory
     /\ asked'.state = state
     /\ state' = move(state, action'.direction).value

C7_SimulationLoop == [](C7_LoopInvariant) /\ [][C7_LoopStep]_vars

\* countSteps has returned a count of several turns
C7_Witness ==
  /\ caller = "countSteps"
  /\ pc = "returned"
  /\ returned > 2
  /\ returned = calls

\* ------------------------------------------------------------------ routeRobot (C8, C9)

\* C8: routeRobot, started with empty memory on a state of VillageState.random,
\* reaches a state with no parcels, within two passes of mailRoute.
C8_RouteRobotDelivers ==
  <>(/\ pc = "returned"
     /\ Len(state.parcels) = 0
     /\ returned <= 2 * Len(mailRouteLiteral))

\* a run of routeRobot that needed its second pass of mailRoute
C8_Witness ==
  /\ robot = "routeRobot"
  /\ pc = "returned"
  /\ returned > Len(mailRouteLiteral)

\* C9: routeRobot with empty memory returns mailRoute[0] and the rest of
\* mailRoute, with non-empty memory the head and the tail of the memory; so the
\* directions of the turns are mailRoute again and again, the turn after the
\* last place of mailRoute going to mailRoute[0], and mailRoute is never modified.
C9_RouteCycle ==
  /\ mailRoute = mailRouteLiteral
  /\ (robot = "routeRobot" /\ calls > 0 /\ pc # "threw") =>
       LET k == ((calls - 1) % Len(mailRouteLiteral)) + 1
       IN /\ action.direction = mailRouteLiteral[k]
          /\ action.memory = Array(SubSeq(mailRouteLiteral, k + 1, Len(mailRouteLiteral)))
          /\ IF asked.memory.items = <<>>
               THEN k = 1
               ELSE /\ action.direction = Head(asked.memory.items)
                    /\ action.memory = Array(Tail(asked.memory.items))

\* the turn after mailRoute has been consumed has gone to mailRoute[0]
C9_Witness ==
  /\ robot = "routeRobot"
  /\ calls = Len(mailRouteLiteral) + 1
  /\ asked.memory = Array(<<>>)
  /\ action.direction = mailRouteLiteral[1]

\* ------------------------------------------------------------------ lazyRobot (C10)

\* the route the last decision has adopted: its direction, then its memory
adopted == <<action.direction>> \o action.memory.items

\* twice the score the claim gives the candidate of parcel p, the robot being
\* at place and the candidate's route being route
claimScore(p, place, route) == (IF p.place # place THEN 1 ELSE 0) - 2 * Len(route)

\* the route of candidate k of the last call is the adopted one and no
\* candidate has a greater score
BestAdopted(k) ==
  LET st == asked.state
      routes == lazyRoutes(st)
  IN /\ routes[k].route.items = adopted
     /\ \A j \in 1..Len(routes) :
          claimScore(st.parcels[j], st.place, routes[j].route.items)
            <= claimScore(st.parcels[k], st.place, routes[k].route.items)

\* C10: called with empty memory, lazyRobot adopts the route of a candidate
\* whose score (0.5 for a pick-up, minus the length of the route) is the
\* greatest among the candidates of all parcels; so a delivery of length n wins
\* over a pick-up of length n + 1, and a pick-up of length n over a delivery of
\* length n.
C10_LazyBestScore ==
  (/\ robot = "lazyRobot"
   /\ pc \in {"countSteps", "runRobot", "returned", "done"}
   /\ calls > 0
   /\ asked.memory = Array(<<>>))
    => /\ \E k \in 1..Len(asked.state.parcels) : BestAdopted(k)
       /\ LET routes == lazyRoutes(asked.state)
          IN \A j, k \in 1..Len(routes) :
               /\ (/\ ~routes[j].pickUp
                   /\ routes[k].pickUp
                   /\ Len(routes[k].route.items) = Len(routes[j].route.items) + 1)
                    => routes[k].route.items # adopted
               /\ (/\ routes[j].pickUp
                   /\ ~routes[k].pickUp
                   /\ Len(routes[k].route.items) = Len(routes[j].route.items)
                   /\ routes[k].route.items = adopted)
                    => \E i \in 1..Len(routes) :
                         routes[i].pickUp /\ routes[i].route.items = adopted

\* lazyRobot, asked with empty memory while a delivery of length n and a
\* pick-up of length n + 1 were open, has adopted the delivery
C10_Witness ==
  /\ robot = "lazyRobot"
  /\ calls > 0
  /\ asked.memory = Array(<<>>)
  /\ LET st == asked.state
         routes == lazyRoutes(st)
     IN \E j, k \in 1..Len(routes) :
          /\ ~routes[j].pickUp
          /\ routes[k].pickUp
          /\ Len(routes[k].route.items) = Len(routes[j].route.items) + 1
          /\ routes[j].route.items = adopted
          /\ routes[k].route.items # adopted

\* lazyRobot, asked with empty memory while a pick-up and a delivery of the
\* same length and of different routes were open, has adopted the pick-up
C10_WitnessPickUp ==
  /\ robot = "lazyRobot"
  /\ calls > 0
  /\ asked.memory = Array(<<>>)
  /\ LET st == asked.state
         routes == lazyRoutes(st)
     IN \E j, k \in 1..Len(routes) :
          /\ routes[j].pickUp
          /\ ~routes[k].pickUp
          /\ Len(routes[k].route.items) = Len(routes[j].route.items)
          /\ routes[j].route.items = adopted
          /\ routes[k].route.items # adopted

\* ------------------------------------------------------------------ lazyRobot ties (C11)

\* the last call of lazyRobot was one with empty memory that returned
LazyChose ==
  /\ robot = "lazyRobot"
  /\ pc \in {"countSteps", "runRobot", "returned", "done"}
  /\ calls > 0
  /\ asked.memory = Array(<<>>)

\* the indices of the candidates of the last call that have the greatest score
Best ==
  LET routes == lazyRoutes(asked.state)
  IN {k \in 1..Len(routes) :
        \A j \in 1..Len(routes) : score(routes[j]) <= score(routes[k])}

\* C11 as stated: when several candidates share the greatest score, the
\* candidate of the earliest parcel of the sequence is the one selected.
C11_EarliestWins ==
  LazyChose =>
    \E k \in Best :
       /\ \A j \in Best : k <= j
       /\ lazyRoutes(asked.state)[k].route.items = adopted

\* C11 amended: when several candidates share the greatest score, the
\* candidate of the latest parcel of the sequence is the one selected.
C11_LatestWins ==
  LazyChose =>
    \E k \in Best :
       /\ \A j \in Best : j <= k
       /\ lazyRoutes(asked.state)[k].route.items = adopted

\* two candidates of different routes shared the greatest score and the
\* route of the later one was adopted
C11_Witness ==
  /\ LazyChose
  /\ \E j, k \in Best :
       /\ j < k
       /\ lazyRoutes(asked.state)[j].route.items # lazyRoutes(asked.state)[k].route.items
       /\ lazyRoutes(asked.state)[k].route.items = adopted

\* ------------------------------------------------------------------ buildGraph (C12)

\* b is in the adjacency list of a in graph
listed(graph, a, b) == a \in DOMAIN graph.adj /\ includes(graph.adj[a], b)

\* C12: in the graph buildGraph returns for an edge list, b is in the
\* adjacency list of a if and only if a is in the adjacency list of b, and
\* every edge descriptor "A-B" puts B in the list of A and A in the list of B.
C12_GraphSymmetry ==
  LET graph == buildGraph(edges)
      places == {edges[k][1] : k \in 1..Len(edges)} \cup {edges[k][2] : k \in 1..Len(edges)}
                  \cup DOMAIN graph.adj \cup SmallPlaces
  IN /\ \A a, b \in places : listed(graph, a, b) <=> listed(graph, b, a)
     /\ \A k \in 1..Len(edges) :
          /\ listed(graph, edges[k][1], edges[k][2])
          /\ listed(graph, edges[k][2], edges[k][1])
     /\ DOMAIN graph.adj = {graph.keys[k] : k \in 1..Len(graph.keys)}

\* a graph of three places built from a list of MaxEdges roads of which two
\* meet in a place
C12_Witness ==
  /\ pc = "findRoute"
  /\ Len(edges) = MaxEdges
  /\ Len(buildGraph(edges).keys) = 3
  /\ \E a \in SmallPlaces : Len(buildGraph(edges).adj[a]) > 1

\* ------------------------------------------------------------------ roadGraph (C13)

\* C13: roadGraph is connected: every place is reachable from every other
\* place, and findRoute(roadGraph, from, to) returns a route for every pair
\* of distinct places.
C13_VillageConnected ==
  (/\ edges = roads
   /\ found.from \in DOMAIN roadGraph.adj
   /\ found.to \in DOMAIN roadGraph.adj
   /\ found.from # found.to)
    => /\ distance(roadGraph, {found.from}, {found.from}, found.to, 0) > 0
       /\ found.route.tag = "array"
       /\ IsPath(roadGraph, found.from, found.route.items, found.to)

\* findRoute has returned a route from Cabin to Ernie's House
C13_Witness ==
  /\ edges = roads
  /\ found.from = "Cabin"
  /\ found.to = "Ernie's House"
  /\ found.route.tag = "array"
  /\ Len(found.route.items) > 0

\* ------------------------------------------------------------------ findRoute without a route (C14)

\* C14: when to is not reachable from from, findRoute fails with an error
\* that reaches its caller; it returns neither a route nor any other value.
C14_NoRouteError ==
  LET graph == buildGraph(edges)
  IN (/\ found.from \in DOMAIN graph.adj
      /\ distance(graph, {found.from}, {found.from}, found.to, 0) = -1)
       => found.route.tag \notin {"array", "undefined"}

\* ------------------------------------------------------------------ unknown places (C15)

\* findRoute from a place the graph does not hold has failed with the error
\* of the lookup
C15_FindRouteFails ==
  (found # NoFound /\ found.from \notin DOMAIN buildGraph(edges).adj)
    => found.route = TypeError

\* move on a state whose place roadGraph does not hold fails with the error
\* of the lookup: nothing is returned and the state is as it was
C15_MoveFails ==
  (pc = "move" /\ state.place \notin DOMAIN roadGraph.adj)
    => /\ pc' = "threw"
       /\ state' = state
       /\ arg' = arg

\* C15: looking up the neighbours of a place that was never registered in the
\* graph fails with an error at once (UnknownPlaceError is the TypeError the
\* lookup on undefined throws): so ends move on a state whose place is not in
\* roadGraph, and so ends findRoute started from a place not in the graph.
C15_UnknownPlace == [](C15_FindRouteFails) /\ [][C15_MoveFails]_vars

\* move has failed on a state at a place roadGraph does not hold, a parcel
\* waiting at that place
C15_Witness ==
  /\ pc = "threw"
  /\ caller = "move"
  /\ state.place \notin DOMAIN roadGraph.adj
  /\ Len(state.parcels) > 0
  /\ state.parcels[1].place = state.place

\* ------------------------------------------------------------------ VillageState.random (C16)

\* the state VillageState.random has returned has the robot at Post Office,
\* parcels whose place and address are places of roadGraph and differ, and as
\* many parcels as its argument says, 5 without an argument
RandomState ==
  /\ state.place = "Post Office"
  /\ \A k \in 1..Len(state.parcels) :
       /\ state.parcels[k].place \in DOMAIN roadGraph.adj
       /\ state.parcels[k].address \in DOMAIN roadGraph.adj
       /\ state.parcels[k].place # state.parcels[k].address
  /\ Len(state.parcels) = parclCount
  /\ caller = "random()" => Len(state.parcels) = 5

\* C16 as stated: every state of VillageState.random has the robot at Post
\* Office and a non-empty parcel set of parcels between two different places
\* of roadGraph, exactly n of them for the argument n, 5 by default.
C16_RandomNonEmpty ==
  pc = "script" => (RandomState /\ Len(state.parcels) > 0)

\* C16 amended: the same, the parcel set being non-empty only if n is at least 1.
C16_RandomState ==
  pc = "script" => (RandomState /\ (parclCount >= 1 => Len(state.parcels) > 0))

\* VillageState.random() has returned a state of five parcels, not all alike
C16_Witness ==
  /\ pc = "script"
  /\ caller = "random()"
  /\ Len(state.parcels) = 5
  /\ state.parcels[1] # state.parcels[5]

\* ------------------------------------------------------------------ randomRobot (C17)

\* C17: under fair random choice among the neighbours of the robot's place,
\* every simulation of randomRobot from a state of VillageState.random reaches
\* a state with no parcels (while no number of turns bounds the simulations:
\* the walk can come back to where it started, no parcel delivered).
C17_RandomRobotDelivers ==
  <>(pc = "returned" /\ Len(state.parcels) = 0)

\* the walk is back at its start after MaxWalk or more turns, every parcel
\* still where it was: a round that can be walked any number of times
C17_Witness ==
  /\ robot = "randomRobot"
  /\ pc = "countSteps"
  /\ steps = MaxWalk
  /\ Len(state.parcels) > 0
  /\ state = given.state

\* ------------------------------------------------------------------ goalOrientedRobot (C18)

\* the place the first parcel of st makes the robot head for
Leg(st) ==
  IF st.parcels[1].place # st.place THEN st.parcels[1].place ELSE st.parcels[1].address

\* C18: goalOrientedRobot called with empty memory takes the route to the
\* place of the first parcel if that parcel is not at the robot's place, else
\* the route to its address; called with non-empty memory it takes the memory
\* as the route; it returns the head of the route as direction and the tail
\* as memory.
C18_GoalOrientedLeg ==
  (/\ robot = "goalOrientedRobot"
   /\ pc \in {"countSteps", "runRobot", "returned", "done"}
   /\ calls > 0)
    => LET route == IF asked.memory.items = <<>>
                      THEN findRoute(roadGraph, asked.state.place, Leg(asked.state)).items
                      ELSE asked.memory.items
       IN /\ Len(route) > 0
          /\ action.direction = Head(route)
          /\ action.memory = Array(Tail(route))
          /\ asked.memory.items = <<>> => route[Len(route)] = Leg(asked.state)

\* goalOrientedRobot, asked with empty memory while carrying its first
\* parcel, has set off for the address, more than one road away
C18_Witness ==
  /\ robot = "goalOrientedRobot"
  /\ calls > 1
  /\ asked.memory = Array(<<>>)
  /\ asked.state.parcels[1].place = asked.state.place
  /\ Len(action.memory.items) > 0
  /\ action.memory.items[Len(action.memory.items)] = asked.state.parcels[1].address

\* ------------------------------------------------------------------ no wasted turns (C19)

\* route can be walked from the place from along roads of roadGraph
ValidRoute(from, route) ==
  /\ Len(route) > 0 => adjacent(from, route[1])
  /\ \A k \in 1..(Len(route) - 1) : adjacent(route[k], route[k + 1])

\* a turn of the loop goes along a road to another place, and leaves a
\* memory that can be walked from there
C19_TurnMoves ==
  (pc = "countSteps" /\ Len(state.parcels) # 0)
    => /\ pc' = "countSteps"
       /\ adjacent(state.place, action'.direction)
       /\ state'.place = action'.direction
       /\ state'.place # state.place
       /\ robot # "randomRobot" => /\ memory'.tag = "array"
                                   /\ ValidRoute(state'.place, memory'.items)

\* C19: in every turn of a simulation that starts from a state of
\* VillageState.random with empty memory, the direction of randomRobot,
\* routeRobot, goalOrientedRobot or lazyRobot is in the adjacency list of the
\* robot's place: move is never a no-op, the place changes on every turn and
\* the stored route stays a valid path from the robot's place.
C19_NoWastedTurns == [][C19_TurnMoves]_vars

\* lazyRobot is on its way along a stored route of more than one road
C19_Witness ==
  /\ robot = "lazyRobot"
  /\ pc = "countSteps"
  /\ calls > 1
  /\ Len(memory.items) > 1
  /\ adjacent(state.place, memory.items[1])
  /\ adjacent(asked.state.place, state.place)

\* ------------------------------------------------------------------ findRoute calls of the robots (C20)

\* where a robot without a route goes for the parcel p
LegFor(st, p) == IF p.place # st.place THEN p.place ELSE p.address

\* the parcels a robot without a route calls findRoute for
Searched(name, st) ==
  IF name = "goalOrientedRobot" THEN {st.parcels[1]} ELSE {st.parcels[k] : k \in 1..Len(st.parcels)}

\* the values findRoute returned to the robot in its last call: lazyRobot
\* keeps one per parcel, goalOrientedRobot returns its only one in two parts
Routes(name) ==
  IF name = "goalOrientedRobot"
    THEN {Array(<<action.direction>> \o action.memory.items)}
    ELSE {lazyRoutes(asked.state)[k].route : k \in 1..Len(asked.state.parcels)}

\* C20: in every turn of a simulation of goalOrientedRobot or lazyRobot
\* from a state of VillageState.random with empty memory, the parcel
\* indexed exists, each findRoute call has from different from to and returns
\* a defined, non-empty route, and the direction emitted is a place.
C20_FindRouteCalls ==
  (robot \in {"goalOrientedRobot", "lazyRobot"})
    => /\ pc # "threw"
       /\ (pc \in {"countSteps", "runRobot"} /\ calls > 0)
            => /\ Len(asked.state.parcels) > 0
               /\ action.direction \in DOMAIN roadGraph.adj
               /\ asked.memory.items = <<>>
                    => /\ \A p \in Searched(robot, asked.state) :
                            LegFor(asked.state, p) # asked.state.place
                       /\ \A route \in Routes(robot) :
                            /\ route.tag = "array"
                            /\ Len(route.items) > 0
                            /\ route.items[Len(route.items)] # asked.state.place
                            /\ \E p \in Searched(robot, asked.state) :
                                 route.items[Len(route.items)] = LegFor(asked.state, p)

\* lazyRobot searched for a parcel it carries and for one it does not
C20_Witness ==
  /\ robot = "lazyRobot"
  /\ pc = "countSteps"
  /\ calls > 1
  /\ asked.memory.items = <<>>
  /\ \E p, q \in Searched(robot, asked.state) :
        /\ p.place = asked.state.place
        /\ q.place # asked.state.place
  /\ action.direction \in DOMAIN roadGraph.adj

\* ------------------------------------------------------------------ termination (C21)

\* the simulation is over: the loop has seen a state with no parcels
Delivered ==
  /\ pc \in {"returned", "done"}
  /\ Len(state.parcels) = 0

\* C21: started with empty memory on any state of VillageState.random,
\* the simulation of goalOrientedRobot and of lazyRobot reaches a state with
\* no parcels after finitely many turns, and countSteps returns.
C21_GoalDirectedTerminates ==
  (robot \in {"goalOrientedRobot", "lazyRobot"}) => <>Delivered

\* countSteps has returned for lazyRobot after it collected and delivered
\* MaxParcels parcels in more than MaxParcels turns
C21_Witness ==
  /\ robot = "lazyRobot"
  /\ caller = "countSteps"
  /\ pc = "returned"
  /\ Len(state.parcels) = 0
  /\ Len(given.state.parcels) = MaxParcels
  /\ returned > MaxParcels
  /\ returned = calls

====
